---- MODULE Spec2Model ----
(***************************************************************************)
(* Model of examples/text_summarization/                                   *)
(* extractive_summarization_cnndm_distributed_train.py: one launcher       *)
(* (main) per node spawns one worker (main_worker) per local device; the   *)
(* workers join one process group, synchronise with collective barriers    *)
(* around data loading and after fit, and global rank 0 saves the model    *)
(* and writes the generated summaries.                                     *)
(*                                                                         *)
(* A worker is the pair <<node rank, local rank>>.  The local variables of *)
(* main_worker are a record per worker whose domain grows as the names     *)
(* are bound, so "defined before use" is visible in the state.             *)
(* torch.distributed.barrier() is a collective: the k-th call of a rank    *)
(* returns once every rank of the group has made its k-th call.            *)
(* Python's true division is modelled by reduced fractions <<num, den>>.   *)
(***************************************************************************)
EXTENDS Integers, Sequences, FiniteSets, TLC

VARIABLES node_count, ngpus_per_node, args, testLen,
          pc, locals, group, barrierCalls, fitCalls,
          saveCalls, predictCalls, summaryFile, destroyCalls

vars == <<node_count, ngpus_per_node, args, testLen,
          pc, locals, group, barrierCalls, fitCalls,
          saveCalls, predictCalls, summaryFile, destroyCalls>>

----------------------------------------------------------------------------
(* Bounds of the model: workers of a job, workers of a job whose flags
   range over all values, samples of the test set *)

MaxWorld == 4

MaxWorldArgs == 2

MaxSamples == 11

(* Program constants *)

REPORT_EVERY == 100

SAVE_EVERY == 1000

QUICK_MAX_STEPS == 10

QUICK_WARMUP_STEPS == 500

QUICK_TOP_N == 10

FULL_TOP_N == 0 - 1

PREDICT_BATCH_SIZE == 128

None == "None"

(* Values of the command line flags the model draws from *)

MaxStepsFlags == {12, 10000}

WarmupStepsFlags == {6, 5000}

FileFlags == {None, "data.pt"}

QuickRunFlags == {"true", "false"}

----------------------------------------------------------------------------
(* Pure helpers *)

RECURSIVE GCD(_, _)
GCD(a, b) == IF b = 0 THEN a ELSE GCD(b, a % b)

(* a / b of Python 3 (true division), as a reduced fraction *)
TrueDiv(a, b) == <<a \div GCD(a, b), b \div GCD(a, b)>>

(* a number passed as it is *)
Num(a) == <<a, 1>>

Min(a, b) == IF a < b THEN a ELSE b

Max(a, b) == IF a > b THEN a ELSE b

(* seq[0:stop] of Python: a negative stop counts from the end, and the
   bound is clipped to the length *)
PySliceMutant(seq, stop) ==
    SubSeq(seq, 1, Min(Max(stop, 0), Len(seq)))

PySlice(seq, stop) ==
    LET n == Len(seq)
        hi == IF stop < 0 THEN Max(n + stop, 0) ELSE Min(stop, n)
    IN SubSeq(seq, 1, hi)

(* rank = args.rank * ngpus_per_node + local_rank *)
GlobalRankMutant(node_rank, g, local_rank) == node_rank + local_rank

GlobalRank(node_rank, g, local_rank) == node_rank * g + local_rank

(* world_size = args.node_count * ngpus_per_node *)
WorldSize(nodes, g) == nodes * g

(* MAX_STEPS, WARMUP_STEPS, TOP_N chosen from quick_run *)
StepConfigMutant(quick_run, max_steps, warmup_steps) ==
    IF quick_run = "false"
    THEN [MAX_STEPS |-> max_steps, WARMUP_STEPS |-> warmup_steps,
          TOP_N |-> FULL_TOP_N]
    ELSE [MAX_STEPS |-> QUICK_MAX_STEPS, WARMUP_STEPS |-> warmup_steps,
          TOP_N |-> QUICK_TOP_N]

StepConfig(quick_run, max_steps, warmup_steps) ==
    IF quick_run = "false"
    THEN [MAX_STEPS |-> max_steps, WARMUP_STEPS |-> warmup_steps,
          TOP_N |-> FULL_TOP_N]
    ELSE [MAX_STEPS |-> QUICK_MAX_STEPS, WARMUP_STEPS |-> QUICK_WARMUP_STEPS,
          TOP_N |-> QUICK_TOP_N]

(* if local_rank not in [-1, 0]: barrier() *)
WaitsBeforeLoadMutant(local_rank) == FALSE

WaitsBeforeLoad(local_rank) == local_rank \notin {0 - 1, 0}

(* if local_rank in [-1, 0]: barrier() *)
SignalsAfterLoadMutant(local_rank) == FALSE

SignalsAfterLoad(local_rank) == local_rank \in {0 - 1, 0}

(* if args.train_file is None or args.test_file is None: preprocess *)
PreprocessesMutant(train_file, test_file) == train_file = None

Preprocesses(train_file, test_file) == train_file = None \/ test_file = None

(* save_every = -1 if rank not in [-1, 0] else SAVE_EVERY *)
SaveEveryMutant(r) == SAVE_EVERY

SaveEvery(r) == IF r \notin {0 - 1, 0} THEN 0 - 1 ELSE SAVE_EVERY

(* max_steps=MAX_STEPS / world_size *)
FitMaxStepsMutant(max_steps, world_size) == Num(max_steps)

FitMaxSteps(max_steps, world_size) == TrueDiv(max_steps, world_size)

(* warmup_steps=WARMUP_STEPS *)
FitWarmupSteps(warmup_steps, world_size) == Num(warmup_steps)

(* if local_rank in [-1, 0] and args.rank == 0 *)
IsSaverMutant(local_rank, node_rank) == local_rank \in {0 - 1, 0}

IsSaver(local_rank, node_rank) == local_rank \in {0 - 1, 0} /\ node_rank = 0

(* The datasets.  A preprocessed sample is its index in the data set; the
   data set records how it was obtained. *)
Samples(n) == [i \in 1..n |-> i]

Dataset(how, part, n) == [how |-> how, part |-> part, samples |-> Samples(n)]

(* summarizer.predict: one generated summary per evaluated document *)
Summary(sample) == 100 + sample

predict(samples) == [i \in 1..Len(samples) |-> Summary(samples[i])]

(* "%s\n" % item *)
FormatLine(item) == [text |-> item, eol |-> "\n"]

(* _write_list_to_file: open(filename, "w") truncates, then one line per
   item in list order *)
_write_list_to_file(old, list_items) ==
    [i \in 1..Len(list_items) |-> FormatLine(list_items[i])]

StaleFile == <<FormatLine(7)>>

----------------------------------------------------------------------------
(* State *)

(* the nodes are launched with --rank 0 .. node_count - 1 and the same
   remaining flags; NodeRank is the --rank of a worker's node *)
Nodes == 0..(node_count - 1)

Workers == Nodes \X (0..(ngpus_per_node - 1))

NodeRank(w) == w[1]

LocalRank(w) == w[2]

Bound(w, name) == name \in DOMAIN locals[w]

Bind(w, rec) == [locals EXCEPT ![w] = rec @@ @]

InitWith(Shapes, quicks, files, maxs, warms, sizes) ==
    /\ \E s \in Shapes : node_count = s[1] /\ ngpus_per_node = s[2]
    /\ args \in [node_count : {node_count},
                 quick_run : quicks, train_file : files, test_file : files,
                 max_steps : maxs, warmup_steps : warms,
                 batch_size : {5}, learning_rate : {"1e-3"}]
    /\ testLen \in sizes
    /\ pc = [w \in Workers |-> "unspawned"]
    /\ locals = [w \in Workers |-> [local_rank |-> LocalRank(w)]]
    /\ group = {}
    /\ barrierCalls = [w \in Workers |-> 0]
    /\ fitCalls = [w \in Workers |-> <<>>]
    /\ saveCalls = <<>>
    /\ predictCalls = <<>>
    /\ summaryFile = StaleFile
    /\ destroyCalls = [w \in Workers |-> 0]

JobShapes == {s \in (1..MaxWorld) \X (1..MaxWorld) : s[1] * s[2] <= MaxWorld}

SmallShapes == {s \in (1..MaxWorldArgs) \X (1..MaxWorldArgs) :
                   s[1] * s[2] <= MaxWorldArgs}

Init == InitWith(JobShapes, QuickRunFlags, FileFlags, {10000}, {5000},
                 {MaxSamples})

InitArgs == InitWith(SmallShapes, QuickRunFlags, FileFlags, MaxStepsFlags,
                     WarmupStepsFlags, 0..MaxSamples)

----------------------------------------------------------------------------
(* Actions *)

(* main: mp.spawn(main_worker, nprocs=ngpus_per_node, ...) on one node *)
main(n) ==
    /\ \A w \in Workers : NodeRank(w) = n => pc[w] = "unspawned"
    /\ pc' = [w \in Workers |-> IF NodeRank(w) = n THEN "start" ELSE pc[w]]
    /\ UNCHANGED <<node_count, ngpus_per_node, args, testLen, locals, group,
                   barrierCalls, fitCalls, saveCalls, predictCalls,
                   summaryFile, destroyCalls>>

(* main_worker up to the first barrier: rank, world_size,
   init_process_group, MAX_STEPS / WARMUP_STEPS / TOP_N *)
init_process_group(w) ==
    /\ pc[w] = "start"
    /\ LET r == GlobalRank(NodeRank(w), ngpus_per_node, LocalRank(w))
           ws == WorldSize(args.node_count, ngpus_per_node)
       IN /\ group' = group \cup {[worker |-> w, rank |-> r, world_size |-> ws]}
          /\ locals' = Bind(w, [rank |-> r, world_size |-> ws]
                   @@ StepConfig(args.quick_run, args.max_steps, args.warmup_steps))
    /\ pc' = [pc EXCEPT ![w] = "gate"]
    /\ UNCHANGED <<node_count, ngpus_per_node, args, testLen,
                   barrierCalls, fitCalls, saveCalls, predictCalls,
                   summaryFile, destroyCalls>>

(* if local_rank not in [-1, 0]: torch.distributed.barrier() *)
BarrierBeforeLoad(w) ==
    /\ pc[w] = "gate"
    /\ IF WaitsBeforeLoad(locals[w].local_rank)
       THEN /\ barrierCalls' = [barrierCalls EXCEPT ![w] = @ + 1]
            /\ pc' = [pc EXCEPT ![w] = "barrier_pre"]
       ELSE /\ pc' = [pc EXCEPT ![w] = "load"]
            /\ UNCHANGED barrierCalls
    /\ UNCHANGED <<node_count, ngpus_per_node, args, testLen, locals, group,
                   fitCalls, saveCalls, predictCalls, summaryFile, destroyCalls>>

(* the ranks of the group that have made at least k barrier calls *)
Arrived(k) == {m.rank : m \in {x \in group : barrierCalls[x.worker] >= k}}

AfterBarrier(label) ==
    CASE label = "barrier_pre" -> "load"
      [] label = "barrier_post" -> "fit"
      [] label = "barrier_final" -> "finalize"

(* torch.distributed.barrier() returns: every rank of the group has made
   the matching call *)
BarrierReturn(w) ==
    /\ pc[w] \in {"barrier_pre", "barrier_post", "barrier_final"}
    /\ Arrived(barrierCalls[w]) = 0..(locals[w].world_size - 1)
    /\ Cardinality({m \in group : barrierCalls[m.worker] >= barrierCalls[w]})
          = locals[w].world_size
    /\ pc' = [pc EXCEPT ![w] = AfterBarrier(pc[w])]
    /\ UNCHANGED <<node_count, ngpus_per_node, args, testLen, locals, group,
                   barrierCalls, fitCalls, saveCalls, predictCalls,
                   summaryFile, destroyCalls>>

(* the data-loading section starts *)
LoadStart(w) ==
    /\ pc[w] = "load"
    /\ pc' = [pc EXCEPT ![w] = "loading"]
    /\ UNCHANGED <<node_count, ngpus_per_node, args, testLen, locals, group,
                   barrierCalls, fitCalls, saveCalls, predictCalls,
                   summaryFile, destroyCalls>>

(* the data-loading section ends: preprocess or torch.load, of both parts *)
LoadFinish(w) ==
    /\ pc[w] = "loading"
    /\ locals' = Bind(w,
            IF Preprocesses(args.train_file, args.test_file)
            THEN [ext_sum_train |-> Dataset("preprocess", "train", 2),
                  ext_sum_test |-> Dataset("preprocess", "test", testLen)]
            ELSE [ext_sum_train |-> Dataset(args.train_file, "train", 2),
                  ext_sum_test |-> Dataset(args.test_file, "test", testLen)])
    /\ pc' = [pc EXCEPT ![w] = "resync"]
    /\ UNCHANGED <<node_count, ngpus_per_node, args, testLen, group,
                   barrierCalls, fitCalls, saveCalls, predictCalls,
                   summaryFile, destroyCalls>>

(* if local_rank in [-1, 0]: torch.distributed.barrier() *)
BarrierAfterLoad(w) ==
    /\ pc[w] = "resync"
    /\ IF SignalsAfterLoad(locals[w].local_rank)
       THEN /\ barrierCalls' = [barrierCalls EXCEPT ![w] = @ + 1]
            /\ pc' = [pc EXCEPT ![w] = "barrier_post"]
       ELSE /\ pc' = [pc EXCEPT ![w] = "fit"]
            /\ UNCHANGED barrierCalls
    /\ UNCHANGED <<node_count, ngpus_per_node, args, testLen, locals, group,
                   fitCalls, saveCalls, predictCalls, summaryFile, destroyCalls>>

(* save_every, then summarizer.fit(...) is entered *)
FitCall(w) ==
    /\ pc[w] = "fit"
    /\ LET l == locals[w]
           se == SaveEvery(l.rank)
       IN /\ locals' = Bind(w, [save_every |-> se])
          /\ fitCalls' = [fitCalls EXCEPT ![w] = Append(@,
                [train_dataset |-> l.ext_sum_train,
                 num_gpus |-> l.world_size,
                 batch_size |-> args.batch_size,
                 gradient_accumulation_steps |-> 1,
                 max_steps |-> FitMaxSteps(l.MAX_STEPS, l.world_size),
                 learning_rate |-> args.learning_rate,
                 warmup_steps |-> FitWarmupSteps(l.WARMUP_STEPS, l.world_size),
                 verbose |-> TRUE,
                 report_every |-> REPORT_EVERY,
                 clip_grad_norm |-> FALSE,
                 local_rank |-> l.local_rank,
                 save_every |-> se,
                 world_size |-> l.world_size,
                 rank |-> l.rank])]
    /\ pc' = [pc EXCEPT ![w] = "fitting"]
    /\ UNCHANGED <<node_count, ngpus_per_node, args, testLen, group,
                   barrierCalls, saveCalls, predictCalls, summaryFile,
                   destroyCalls>>

(* summarizer.fit returns *)
FitReturn(w) ==
    /\ pc[w] = "fitting"
    /\ pc' = [pc EXCEPT ![w] = "final"]
    /\ UNCHANGED <<node_count, ngpus_per_node, args, testLen, locals, group,
                   barrierCalls, fitCalls, saveCalls, predictCalls,
                   summaryFile, destroyCalls>>

(* torch.distributed.barrier() after fit *)
FinalBarrier(w) ==
    /\ pc[w] = "final"
    /\ barrierCalls' = [barrierCalls EXCEPT ![w] = @ + 1]
    /\ pc' = [pc EXCEPT ![w] = "barrier_final"]
    /\ UNCHANGED <<node_count, ngpus_per_node, args, testLen, locals, group,
                   fitCalls, saveCalls, predictCalls, summaryFile, destroyCalls>>

(* summarizer.save_model(...) on the saving worker *)
save_model(w) ==
    /\ pc[w] = "finalize"
    /\ IsSaver(locals[w].local_rank, NodeRank(w))
    /\ saveCalls' = Append(saveCalls, w)
    /\ pc' = [pc EXCEPT ![w] = "predict"]
    /\ UNCHANGED <<node_count, ngpus_per_node, args, testLen, locals, group,
                   barrierCalls, fitCalls, predictCalls, summaryFile,
                   destroyCalls>>

(* every other worker skips the block *)
SkipFinalize(w) ==
    /\ pc[w] = "finalize"
    /\ ~IsSaver(locals[w].local_rank, NodeRank(w))
    /\ pc' = [pc EXCEPT ![w] = "cleanup"]
    /\ UNCHANGED <<node_count, ngpus_per_node, args, testLen, locals, group,
                   barrierCalls, fitCalls, saveCalls, predictCalls,
                   summaryFile, destroyCalls>>

(* prediction = summarizer.predict(ext_sum_test[0:TOP_N], batch_size=128) *)
Predict(w) ==
    /\ pc[w] = "predict"
    /\ LET slice == PySlice(locals[w].ext_sum_test.samples, locals[w].TOP_N)
       IN /\ predictCalls' = Append(predictCalls,
                [worker |-> w, samples |-> slice,
                 batch_size |-> PREDICT_BATCH_SIZE])
          /\ locals' = Bind(w, [prediction |-> predict(slice)])
    /\ pc' = [pc EXCEPT ![w] = "write"]
    /\ UNCHANGED <<node_count, ngpus_per_node, args, testLen, group,
                   barrierCalls, fitCalls, saveCalls, summaryFile, destroyCalls>>

(* _write_list_to_file(prediction, summary file) *)
WriteSummaries(w) ==
    /\ pc[w] = "write"
    /\ summaryFile' = _write_list_to_file(summaryFile, locals[w].prediction)
    /\ pc' = [pc EXCEPT ![w] = "cleanup"]
    /\ UNCHANGED <<node_count, ngpus_per_node, args, testLen, locals, group,
                   barrierCalls, fitCalls, saveCalls, predictCalls,
                   destroyCalls>>

(* cleanup: dist.destroy_process_group() *)
cleanup(w) ==
    /\ pc[w] = "cleanup"
    /\ destroyCalls' = [destroyCalls EXCEPT ![w] = @ + 1]
    /\ pc' = [pc EXCEPT ![w] = "done"]
    /\ UNCHANGED <<node_count, ngpus_per_node, args, testLen, locals, group,
                   barrierCalls, fitCalls, saveCalls, predictCalls, summaryFile>>

main_worker(w) ==
    \/ init_process_group(w)
    \/ BarrierBeforeLoad(w)
    \/ BarrierReturn(w)
    \/ LoadStart(w)
    \/ LoadFinish(w)
    \/ BarrierAfterLoad(w)
    \/ FitCall(w)
    \/ FitReturn(w)
    \/ FinalBarrier(w)
    \/ save_model(w)
    \/ SkipFinalize(w)
    \/ Predict(w)
    \/ WriteSummaries(w)
    \/ cleanup(w)

Next ==
    \/ \E n \in Nodes : main(n)
    \/ \E w \in Workers : init_process_group(w)
    \/ \E w \in Workers : BarrierBeforeLoad(w)
    \/ \E w \in Workers : BarrierReturn(w)
    \/ \E w \in Workers : LoadStart(w)
    \/ \E w \in Workers : LoadFinish(w)
    \/ \E w \in Workers : BarrierAfterLoad(w)
    \/ \E w \in Workers : FitCall(w)
    \/ \E w \in Workers : FitReturn(w)
    \/ \E w \in Workers : FinalBarrier(w)
    \/ \E w \in Workers : save_model(w)
    \/ \E w \in Workers : SkipFinalize(w)
    \/ \E w \in Workers : Predict(w)
    \/ \E w \in Workers : WriteSummaries(w)
    \/ \E w \in Workers : cleanup(w)

Spec == Init /\ [][Next]_vars

(* every launched node and every spawned worker process keeps running *)
Fairness ==
    /\ \A n \in 0..(MaxWorld - 1) : WF_vars(n \in Nodes /\ main(n))
    /\ \A w \in (0..(MaxWorld - 1)) \X (0..(MaxWorld - 1)) :
          WF_vars(w \in Workers /\ main_worker(w))

FairSpec == Spec /\ Fairness

SpecArgs == InitArgs /\ [][Next]_vars

----------------------------------------------------------------------------
(* Vocabulary of the properties *)

Root == <<0, 0>>

BeforeLoading == {"unspawned", "start", "gate", "barrier_pre", "load"}

BeforeFit == BeforeLoading \cup {"loading", "resync", "barrier_post", "fit"}

AfterFit == {"barrier_final", "finalize", "predict", "write", "cleanup", "done"}

StartedLoading(w) == pc[w] \notin BeforeLoading

FinishedLoading(w) == pc[w] \notin (BeforeLoading \cup {"loading"})

EnteredFit(w) == pc[w] \notin BeforeFit

ReturnedFromFit(w) == pc[w] \in AfterFit

Written == summaryFile # StaleFile

AllDone == \A w \in Workers : pc[w] = "done"

FitCalled(w) == fitCalls[w] # <<>>

(* the number x / y as the model represents a Python number *)
IsQuotient(value, x, y) == value[1] * y = x * value[2]

----------------------------------------------------------------------------
(* C1: save_model, predict and the summary-file write are performed by
   exactly one worker of the job, the worker with global rank 0 (local rank
   0 on the node with --rank 0), and only after every worker has returned
   from fit and entered the final barrier. *)
C1_OnlyRankZeroFinalizes ==
    /\ Len(saveCalls) <= 1
    /\ Len(predictCalls) <= 1
    /\ \A i \in 1..Len(saveCalls) : saveCalls[i] = Root
    /\ \A i \in 1..Len(predictCalls) : predictCalls[i].worker = Root
    /\ \A w \in Workers :
          pc[w] \in {"predict", "write"} => w = Root /\ locals[w].rank = 0
    /\ (saveCalls # <<>> \/ predictCalls # <<>> \/ Written)
          => \A w \in Workers : ReturnedFromFit(w)
    /\ Written => Len(saveCalls) = 1 /\ Len(predictCalls) = 1
    /\ AllDone => Len(saveCalls) = 1 /\ Len(predictCalls) = 1 /\ Written

C1_Witness ==
    /\ node_count = 2 /\ ngpus_per_node = 2
    /\ AllDone /\ saveCalls = <<Root>> /\ Written

(* C2: a worker whose local rank is not 0 does not start its data-loading
   section until every worker with local rank 0 has finished its own. *)
C2_NonZeroWaitsForLocalZero ==
    \A w \in Workers :
        (LocalRank(w) # 0 /\ StartedLoading(w))
           => \A v \in Workers : LocalRank(v) = 0 => FinishedLoading(v)

C2_Witness ==
    /\ node_count = 2 /\ ngpus_per_node = 2
    /\ \E w \in Workers : LocalRank(w) # 0 /\ pc[w] = "loading"
    /\ \E w \in Workers : LocalRank(w) # 0 /\ pc[w] = "barrier_pre"

(* C3 as claimed: no worker enters fit until every worker of the process
   group has finished its data-loading section. *)
C3_Original ==
    \A w \in Workers :
        EnteredFit(w) => \A v \in Workers : FinishedLoading(v)

(* C3 amended: no worker enters fit until it has finished its own
   data-loading section and every worker with local rank 0 has finished
   its data-loading section. *)
C3_FitAfterLocalZeroLoaded ==
    \A w \in Workers :
        EnteredFit(w) =>
           /\ FinishedLoading(w)
           /\ \A v \in Workers : LocalRank(v) = 0 => FinishedLoading(v)

C3_Witness ==
    /\ node_count = 2
    /\ \E w, v, u \in Workers :
          /\ NodeRank(w) = 0 /\ LocalRank(w) = 0 /\ pc[w] = "fitting"
          /\ NodeRank(v) = 1 /\ LocalRank(v) = 0 /\ FinishedLoading(v)
          /\ LocalRank(u) # 0 /\ ~FinishedLoading(u)

(* C4: every worker makes two barrier calls, one in the data-loading phase
   and one after fit, no barrier blocks for ever, and every worker
   eventually calls destroy_process_group exactly once, after the final
   barrier and, for global rank 0, after the summaries are written. *)
C4_Counts ==
    \A w \in Workers :
        /\ barrierCalls[w] <= 2
        /\ destroyCalls[w] <= 1
        /\ pc[w] \in {"fit", "fitting", "final"} => barrierCalls[w] = 1
        /\ destroyCalls[w] = 1 =>
              /\ pc[w] = "done"
              /\ barrierCalls[w] = 2
              /\ w = Root => Written
        /\ pc[w] = "done" => destroyCalls[w] = 1

C4_BarriersPassAndGroupDestroyed ==
    /\ []C4_Counts
    /\ <>[](\A w \in Workers :
               pc[w] = "done" /\ barrierCalls[w] = 2 /\ destroyCalls[w] = 1)

C4_Witness ==
    /\ node_count = 2 /\ ngpus_per_node = 2
    /\ \A w \in Workers :
          pc[w] = "done" /\ barrierCalls[w] = 2 /\ destroyCalls[w] = 1

(* C5 as claimed: both the max-steps and the warmup-steps value passed to
   fit are the configured step counts divided by world_size. *)
C5_Original ==
    \A w \in Workers : FitCalled(w) =>
        LET ws == args.node_count * ngpus_per_node
        IN /\ IsQuotient(fitCalls[w][1].max_steps, locals[w].MAX_STEPS, ws)
           /\ IsQuotient(fitCalls[w][1].warmup_steps, locals[w].WARMUP_STEPS, ws)

(* C5 amended: the max-steps value passed to fit is MAX_STEPS divided by
   world_size = node_count * ngpus_per_node; the warmup-steps value passed
   is WARMUP_STEPS itself, not divided. *)
C5_OnlyMaxStepsScaled ==
    \A w \in Workers : FitCalled(w) =>
        LET ws == args.node_count * ngpus_per_node
        IN /\ fitCalls[w][1].world_size = ws
           /\ fitCalls[w][1].num_gpus = ws
           /\ IsQuotient(fitCalls[w][1].max_steps, locals[w].MAX_STEPS, ws)
           /\ IsQuotient(fitCalls[w][1].warmup_steps, locals[w].WARMUP_STEPS, 1)

C5_Witness ==
    \E w \in Workers :
        /\ FitCalled(w)
        /\ fitCalls[w][1].world_size = 2
        /\ fitCalls[w][1].max_steps = <<5, 1>>
        /\ fitCalls[w][1].warmup_steps = <<500, 1>>

(* C6: both data sets are deserialised from the given files if and only if
   both --train_file and --test_file are given; if either is missing both
   are preprocessed and a single file name is ignored; both names are bound
   before fit is called. *)
C6_OneLoadPath ==
    \A w \in Workers :
        /\ Bound(w, "ext_sum_train") <=> Bound(w, "ext_sum_test")
        /\ FinishedLoading(w) => Bound(w, "ext_sum_train")
        /\ Bound(w, "ext_sum_train") =>
              LET tr == locals[w].ext_sum_train
                  te == locals[w].ext_sum_test
              IN /\ tr.part = "train" /\ te.part = "test"
                 /\ IF args.train_file # None /\ args.test_file # None
                    THEN tr.how = args.train_file /\ te.how = args.test_file
                    ELSE tr.how = "preprocess" /\ te.how = "preprocess"
        /\ FitCalled(w) =>
              /\ Bound(w, "ext_sum_train") /\ Bound(w, "ext_sum_test")
              /\ fitCalls[w][1].train_dataset = locals[w].ext_sum_train

C6_Witness ==
    /\ args.train_file # None /\ args.test_file = None
    /\ \E w \in Workers :
          FitCalled(w) /\ locals[w].ext_sum_train.how = "preprocess"

(* C7: in a quick run the step flags are not used: MAX_STEPS is 10,
   WARMUP_STEPS is 500 and TOP_N is 10 whatever --max_steps and
   --warmup_steps are, and so are the values passed to fit and the bound of
   the prediction slice; in a full run MAX_STEPS and WARMUP_STEPS are the
   flag values and TOP_N is -1. *)
C7_QuickRunIgnoresStepFlags ==
    /\ \A w \in Workers : Bound(w, "MAX_STEPS") =>
          IF args.quick_run = "true"
          THEN /\ locals[w].MAX_STEPS = 10
               /\ locals[w].WARMUP_STEPS = 500
               /\ locals[w].TOP_N = 10
          ELSE /\ locals[w].MAX_STEPS = args.max_steps
               /\ locals[w].WARMUP_STEPS = args.warmup_steps
               /\ locals[w].TOP_N = 0 - 1
    /\ \A w \in Workers : (FitCalled(w) /\ args.quick_run = "true") =>
          /\ IsQuotient(fitCalls[w][1].max_steps, 10,
                        args.node_count * ngpus_per_node)
          /\ fitCalls[w][1].warmup_steps = <<500, 1>>
    /\ \A i \in 1..Len(predictCalls) : args.quick_run = "true" =>
          Len(predictCalls[i].samples) = Min(10, testLen)

C7_Witness ==
    /\ args.quick_run = "true"
    /\ args.max_steps = 10000 /\ args.warmup_steps = 6
    /\ testLen = MaxSamples
    /\ Len(predictCalls) = 1
    /\ \A w \in Workers : FitCalled(w)

(* C8: exactly one worker of the job, the one with global rank 0, passes
   save_every = SAVE_EVERY (1000) to fit, every other worker passes -1, and
   the worker that checkpoints during fit is the one that calls
   save_model. *)
C8_CheckpointOnRankZeroOnly ==
    /\ \A w \in Workers : FitCalled(w) =>
          /\ Len(fitCalls[w]) = 1
          /\ fitCalls[w][1].save_every = (IF w = Root THEN 1000 ELSE 0 - 1)
          /\ (fitCalls[w][1].save_every = 1000) <=> (fitCalls[w][1].rank = 0)
    /\ \A i \in 1..Len(saveCalls) :
          /\ FitCalled(saveCalls[i])
          /\ fitCalls[saveCalls[i]][1].save_every = 1000
    /\ (\A w \in Workers : FitCalled(w)) =>
          Cardinality({w \in Workers : fitCalls[w][1].save_every = 1000}) = 1

C8_Witness ==
    /\ node_count = 2 /\ ngpus_per_node = 2
    /\ saveCalls = <<Root>>
    /\ fitCalls[<<1, 0>>] # <<>>
    /\ fitCalls[<<1, 0>>][1].save_every = 0 - 1
    /\ fitCalls[Root][1].save_every = 1000

(* C9: with the same device count g on every node and node ranks
   0..node_count-1, the global ranks node_rank * g + local_rank of the
   workers are pairwise distinct and cover exactly 0..world_size-1 with
   world_size = node_count * g, and every worker joins the group with that
   world_size and a rank below it. *)
C9_RanksPartitionWorld ==
    /\ \A m \in group :
          /\ m.world_size = node_count * ngpus_per_node
          /\ m.rank \in 0..(m.world_size - 1)
          /\ m.rank = locals[m.worker].rank
    /\ \A m1, m2 \in group : m1.rank = m2.rank => m1.worker = m2.worker
    /\ Cardinality(Workers) = node_count * ngpus_per_node
    /\ (\A w \in Workers : pc[w] \notin {"unspawned", "start"}) =>
          {m.rank : m \in group} = 0..(node_count * ngpus_per_node - 1)

C9_Witness ==
    /\ node_count = 2 /\ ngpus_per_node = 2
    /\ {m.rank : m \in group} = 0..3
    /\ \E m \in group : m.worker = <<1, 1>> /\ m.rank = 3

(* C10: predict receives ext_sum_test[0:TOP_N], the first min(10, n)
   samples in a quick run and the first max(n - 1, 0) samples in a full
   run; the summary file is overwritten and holds exactly one
   newline-terminated line per element of the prediction, in order. *)
C10_SliceAndSummaryFile ==
    /\ \A i \in 1..Len(predictCalls) :
          LET k == IF args.quick_run = "true"
                   THEN Min(10, testLen) ELSE Max(testLen - 1, 0)
          IN /\ Len(predictCalls[i].samples) = k
             /\ \A j \in 1..k : predictCalls[i].samples[j] = j
    /\ \A w \in Workers : pc[w] \in {"cleanup", "done"} /\ w = Root =>
          /\ Len(summaryFile) = Len(locals[w].prediction)
          /\ \A j \in 1..Len(summaryFile) :
                /\ summaryFile[j].text = locals[w].prediction[j]
                /\ summaryFile[j].eol = "\n"

C10_Witness ==
    /\ args.quick_run = "false" /\ testLen = MaxSamples
    /\ pc[Root] = "done"
    /\ Len(predictCalls) = 1
    /\ Len(summaryFile) = MaxSamples - 1
    /\ summaryFile[1].text = 101

====
